---- MODULE Spec2Model ----
(***************************************************************************)
(* Model of pkg/pivot/pivot.go of wreck-it: the Pivoted Query Synthesis    *)
(* oracle.  The module holds these specifications over one set of          *)
(* variables:                                                              *)
(*   SpecCompare  compareQueryItem applied to a pair of cells              *)
(*   SpecOracle   one call of compareQueryItem, or one call of             *)
(*                Pivot.verify / Pivot.checkRow on a pivot row, an         *)
(*                output-column list and a result set                      *)
(*   SpecPivot    Pivot.ChoosePivotedRow, one query per candidate table    *)
(*   SpecReset    Pivot.cleanup run several times in a row                 *)
(*   Spec         the life cycle: Start, the background worker, Close      *)
(*   SpecFair     Spec with every thread that can take a step taking one   *)
(* Each specification leaves the variables of the others untouched.        *)
(***************************************************************************)
EXTENDS Integers, Sequences, FiniteSets, TLC

VARIABLES
    \* compareQueryItem
    cmpLeft, cmpRight, cmpOut,
    \* verify
    originRow, columns, resultSets, verifyOut,
    \* ChoosePivotedRow
    Tables, count, usedTables, pos, result, reallyUsed, responses, pivotPc,
    \* life cycle: the caller's thread, the worker goroutine, the context,
    \* the WaitGroup, the process, the connection and the database
    ownerPc, workerPc, ctxDone, wg, alive, connOpen, db, execTables, loopI,
    nTables, spawned, iterations, emitted, lastFailure, closeLog,
    \* prepare: the statements executed so far and the outcome of the last one
    created, reloads, indexed, inserted, fault, logLine,
    \* Init calls so far, whether an iteration after the first began with the
    \* context already cancelled, and what the worker wrote before a panic
    snapshots, lateStart, diag,
    \* cleanup applied to a database several times in a row
    resetPrior, resetDb, resetOnce, resetRuns

cmpVars == <<cmpLeft, cmpRight, cmpOut>>
verVars == <<originRow, columns, resultSets, verifyOut>>
pivVars == <<Tables, count, usedTables, pos, result, reallyUsed, responses, pivotPc>>
coreVars == <<ownerPc, workerPc, ctxDone, wg, alive, connOpen, db, execTables,
              loopI, nTables, spawned, iterations, emitted, lastFailure, closeLog>>
bootVars == <<created, reloads, indexed, inserted, fault, logLine>>
lifeVars == <<coreVars, bootVars, snapshots, lateStart, diag>>
rstVars == <<resetPrior, resetDb, resetOnce, resetRuns>>
vars == <<cmpVars, verVars, pivVars, lifeVars, rstVars>>

(***************************************************************************)
(* Bounds of the model and the data the collaborators can hand over.       *)
(***************************************************************************)
\* Longest output-column list and widest fetched row.
MaxCols == 2
\* Most rows in one result set.
MaxRows == 2

\* c.ValType.Name(): the value-type names a cell can carry.
Types == {"int", "varchar"}
\* c.ValString: stored string representations.
Strings == {"", "1"}
\* connection.QueryItem: {Null, ValType, ValString}.
QueryItem == [Null : BOOLEAN, ValString : Strings, ValType : Types]

\* The cells the rows of the model are made of (pivot rows, result sets,
\* fetched rows): an integer 1, an integer NULL and a string "1".  Two of
\* them are equal, differ in the null flag, or differ in the type.
RowCells ==
    { [Null |-> FALSE, ValString |-> "1", ValType |-> "int"],
      [Null |-> TRUE, ValString |-> "", ValType |-> "int"],
      [Null |-> FALSE, ValString |-> "1", ValType |-> "varchar"] }

\* Most tables in a schema snapshot handed to ChoosePivotedRow.
MaxTables == 3

\* Oracle iterations counted before the counter stops counting.
MaxIter == 2

\* Most tables left in the working database by an earlier run.
MaxLeftover == 12

\* Most runs of cleanup in a row on one database.
MaxResets == 3

\* Marks an operation that has not run yet, and one that is not part of the
\* specification at hand.
NotRun == "notrun"
Idle == "idle"

(***************************************************************************)
(* compareQueryItem: pivot.go 279-288.                                     *)
(***************************************************************************)
\* Mutant: the null flags are not compared, only the strings.
compareQueryItemNoNull(left, right) ==
    IF left.ValType # right.ValType
    THEN FALSE
    ELSE (left.Null /\ right.Null) \/ (left.ValString = right.ValString)

\* Mutant: the type names are not compared.
compareQueryItemNoType(left, right) ==
    IF left.Null # right.Null
    THEN FALSE
    ELSE (left.Null /\ right.Null) \/ (left.ValString = right.ValString)

\* Mutant: the strings are compared even when both cells are null.
compareQueryItemStrict(left, right) ==
    IF left.ValType # right.ValType
    THEN FALSE
    ELSE IF left.Null # right.Null
         THEN FALSE
         ELSE left.ValString = right.ValString

compareQueryItem(left, right) ==
    IF left.ValType # right.ValType
    THEN FALSE
    ELSE IF left.Null # right.Null
         THEN FALSE
         ELSE (left.Null /\ right.Null) \/ (left.ValString = right.ValString)

CompareInit ==
    /\ cmpLeft \in QueryItem
    /\ cmpRight \in QueryItem
    /\ cmpOut = NotRun

CompareIdle ==
    /\ cmpLeft = [Null |-> FALSE, ValString |-> "", ValType |-> "int"]
    /\ cmpRight = [Null |-> FALSE, ValString |-> "", ValType |-> "int"]
    /\ cmpOut = Idle

\* One call compareQueryItem(cmpLeft, cmpRight).
Compare ==
    /\ cmpOut = NotRun
    /\ cmpOut' = IF compareQueryItem(cmpLeft, cmpRight) THEN "true" ELSE "false"
    /\ UNCHANGED <<cmpLeft, cmpRight>>

(***************************************************************************)
(* verify and checkRow: pivot.go 241-277.                                  *)
(***************************************************************************)
\* TableColumn{Table, Name}: the key of a pivot row entry.  ChoosePivotedRow
\* fills Name with the value-type name of the cell (pivot.go 204).
VerifyTables == {1}
TableColumn(tables) == [Table : tables, Name : Types]

\* The pivot rows ChoosePivotedRow can build over `tables`: a map from some
\* keys to cells, each cell filed under its own value-type name.
PivotRows(tables) ==
    UNION { { f \in [D -> RowCells] : \A k \in D : f[k].ValType = k.Name }
            : D \in SUBSET TableColumn(tables) }

\* The sequences over S of length at most n.
SeqUpTo(S, n) == UNION { [1..m -> S] : m \in 0..n }

\* Result sets: at most MaxRows rows, all of one width of at most MaxCols.
ResultSets ==
    UNION { SeqUpTo([1..w -> RowCells], MaxRows) : w \in 0..MaxCols }

\* checkRow (269-277) from column i on: "true", "false", or "panic" when
\* originRow has no entry for the column (nil dereference in
\* compareQueryItem) or the row is shorter than the column list (index out
\* of range).  A mismatch returns before the later columns are looked at.
RECURSIVE checkRowFrom(_, _, _, _)
checkRowFrom(origin, cols, row, i) ==
    IF i > Len(cols)
    THEN "true"
    ELSE IF cols[i] \notin DOMAIN origin \/ i > Len(row)
         THEN "panic"
         ELSE IF ~compareQueryItem(origin[cols[i]], row[i])
              THEN "false"
              ELSE checkRowFrom(origin, cols, row, i + 1)

checkRow(origin, cols, row) == checkRowFrom(origin, cols, row, 1)

\* verify (241-267) from row r on: the first row checkRow accepts ends the
\* scan with true; a panic in checkRow ends it; no row left gives false.
RECURSIVE verifyFrom(_, _, _, _)
verifyFrom(origin, cols, rows, r) ==
    IF r > Len(rows)
    THEN "false"
    ELSE LET c == checkRow(origin, cols, rows[r])
         IN  IF c = "true"
             THEN "true"
             ELSE IF c = "panic"
                  THEN "panic"
                  ELSE verifyFrom(origin, cols, rows, r + 1)

\* Mutant: only the first result row is checked.
verifyFirstRowOnly(origin, cols, rows) ==
    IF Len(rows) = 0 THEN "false" ELSE checkRow(origin, cols, rows[1])

verify(origin, cols, rows) == verifyFrom(origin, cols, rows, 1)

VerifyInit ==
    /\ originRow \in PivotRows(VerifyTables)
    /\ columns \in SeqUpTo(TableColumn(VerifyTables), MaxCols)
    /\ resultSets \in ResultSets
    /\ verifyOut = NotRun

VerifyIdle ==
    /\ originRow = <<>>
    /\ columns = <<>>
    /\ resultSets = <<>>
    /\ verifyOut = Idle

\* One call p.verify(originRow, columns, resultSets).
Verify ==
    /\ verifyOut = NotRun
    /\ verifyOut' = verify(originRow, columns, resultSets)
    /\ UNCHANGED <<originRow, columns, resultSets>>

(***************************************************************************)
(* ChoosePivotedRow: pivot.go 185-212.                                     *)
(***************************************************************************)
\* Mutant: Rd(n) leaves n out, as rand.Intn(n) does.
RdBelow(n) == 0..(n - 1)

\* Rd(n) is defined outside pivot.go.  Section 4.3 of the specification has
\* count uniform in [1, len(tables)], so Rd(len-1) ranges over 0..len-1.
Rd(n) == 0..n

\* The values `count` can take for a table list of length n (187-190).
countChoices(n) == IF n > 1 THEN { r + 1 : r \in Rd(n - 1) } ELSE {1}

\* rand.Shuffle (191): every ordering of the table list.
Shuffles(s) ==
    { t \in [1..Len(s) -> {s[i] : i \in 1..Len(s)}] :
        \A i, j \in 1..Len(s) : i # j => t[i] # t[j] }

\* What execSelect can hand back for "SELECT * ... LIMIT 1" (196-197): an
\* error, no row, or one row of 1..MaxCols cells.
FetchedRows == UNION { [1..w -> RowCells] : w \in 1..MaxCols }
ExeRes == {<<>>} \cup { <<row>> : row \in FetchedRows }
QueryErr == "err"

\* The loop body at 202-206: the cells of `row` from cell i on are filed
\* under TableColumn{table, value-type name}; a later cell replaces an
\* earlier one with the same key.
RECURSIVE recordCells(_, _, _, _)
recordCells(res, table, row, i) ==
    IF i > Len(row)
    THEN res
    ELSE LET key == [Table |-> table, Name |-> row[i].ValType]
             next == [k \in DOMAIN res \cup {key} |->
                        IF k = key THEN row[i] ELSE res[k]]
         IN  recordCells(next, table, row, i + 1)

\* Mutant: the first cell filed under a key stays, later ones are dropped.
RECURSIVE recordCellsKeepFirst(_, _, _, _)
recordCellsKeepFirst(res, table, row, i) ==
    IF i > Len(row)
    THEN res
    ELSE LET key == [Table |-> table, Name |-> row[i].ValType]
             next == [k \in DOMAIN res \cup {key} |->
                        IF k \in DOMAIN res THEN res[k] ELSE row[i]]
         IN  recordCellsKeepFirst(next, table, row, i + 1)

recordResponseKeepFirst(res, used, table, exeRes) ==
    IF Len(exeRes) > 0
    THEN [result |-> recordCellsKeepFirst(res, table, exeRes[1], 1),
          reallyUsed |-> Append(used, table)]
    ELSE [result |-> res, reallyUsed |-> used]

\* Mutant: the cells are filed under the value-type name alone, the table
\* of the key being the same for all.
RECURSIVE recordCellsTypeKey(_, _, _, _)
recordCellsTypeKey(res, table, row, i) ==
    IF i > Len(row)
    THEN res
    ELSE LET key == [Table |-> 1, Name |-> row[i].ValType]
             next == [k \in DOMAIN res \cup {key} |->
                        IF k = key THEN row[i] ELSE res[k]]
         IN  recordCellsTypeKey(next, table, row, i + 1)

recordResponseTypeKey(res, used, table, exeRes) ==
    IF Len(exeRes) > 0
    THEN [result |-> recordCellsTypeKey(res, table, exeRes[1], 1),
          reallyUsed |-> Append(used, table)]
    ELSE [result |-> res, reallyUsed |-> used]

\* Mutant: a table that returned no row is kept as really used.
recordResponseKeepEmpty(res, used, table, exeRes) ==
    IF Len(exeRes) > 0
    THEN [result |-> recordCells(res, table, exeRes[1], 1),
          reallyUsed |-> Append(used, table)]
    ELSE [result |-> res, reallyUsed |-> Append(used, table)]

\* The body of the candidate loop after a successful query (201-209).
recordResponse(res, used, table, exeRes) ==
    IF Len(exeRes) > 0
    THEN [result |-> recordCells(res, table, exeRes[1], 1),
          reallyUsed |-> Append(used, table)]
    ELSE [result |-> res, reallyUsed |-> used]

PivotInit ==
    /\ \E n \in 0..MaxTables : Tables = [i \in 1..n |-> i]
    /\ count = 0
    /\ usedTables = <<>>
    /\ pos = 0
    /\ result = <<>>
    /\ reallyUsed = <<>>
    /\ responses = <<>>
    /\ pivotPc = "start"

PivotIdle ==
    /\ Tables = <<>>
    /\ count = 0
    /\ usedTables = <<>>
    /\ pos = 0
    /\ result = <<>>
    /\ reallyUsed = <<>>
    /\ responses = <<>>
    /\ pivotPc = Idle

\* 186-193: draw count, shuffle p.Tables in place, take p.Tables[:count].
\* The slice expression panics when count exceeds the capacity of p.Tables;
\* Init (69) makes the list with capacity 0 and only appends, so an empty
\* list has capacity 0 and a list of n >= 1 tables has capacity >= n.
ChooseCount ==
    /\ pivotPc = "start"
    /\ \E c \in countChoices(Len(Tables)), t \in Shuffles(Tables) :
        /\ count' = c
        /\ Tables' = t
        /\ IF c > Len(t)
           THEN /\ pivotPc' = "panic"
                /\ usedTables' = <<>>
           ELSE /\ pivotPc' = "loop"
                /\ usedTables' = SubSeq(t, 1, c)
    /\ pos' = 1
    /\ UNCHANGED <<result, reallyUsed, responses>>

\* 195-210, one pass of the loop: the query fails and the function panics
\* (198-200), or its answer is recorded.
FetchPivot ==
    /\ pivotPc = "loop"
    /\ pos <= Len(usedTables)
    /\ \/ /\ responses' = Append(responses, QueryErr)
          /\ pivotPc' = "panic"
          /\ UNCHANGED <<result, reallyUsed, pos>>
       \/ \E exeRes \in ExeRes :
            LET r == recordResponse(result, reallyUsed, usedTables[pos], exeRes)
            IN  /\ responses' = Append(responses, exeRes)
                /\ result' = r.result
                /\ reallyUsed' = r.reallyUsed
                /\ pos' = pos + 1
                /\ UNCHANGED pivotPc
    /\ UNCHANGED <<Tables, count, usedTables>>

\* 211: return result, reallyUsed, nil.
ReturnPivot ==
    /\ pivotPc = "loop"
    /\ pos > Len(usedTables)
    /\ pivotPc' = "done"
    /\ UNCHANGED <<Tables, count, usedTables, pos, result, reallyUsed, responses>>

(***************************************************************************)
(* The life cycle: Start, kickup, prepare, Init, the worker, Close.        *)
(* pivot.go 55-182.  ownerPc and workerPc name the statement each thread   *)
(* runs next; the owner starts at "new", with the Pivot constructed.       *)
(***************************************************************************)
\* r.Intn(10)+1 at 95 and r.Intn(10) at 111.
CreateTableDraw == 10
CreateIndexDraw == 10

Min(a, b) == IF a < b THEN a ELSE b

\* The loop bounds prepare draws: r.Intn(10)+1 (95) and r.Intn(10) (111).
\* Mutant: the +1 of line 95 is left out.
createTableBoundsFromZero == 0..(CreateTableDraw - 1)

createTableBounds == { r + 1 : r \in 0..(CreateTableDraw - 1) }
createIndexBounds == 0..(CreateIndexDraw - 1)

\* "drop database if exists <DBName>" (130): the database and all it holds
\* are gone, and with it the selection of it as current.
dropDatabase(d) == [exists |-> FALSE, current |-> FALSE, tables |-> 0]

\* "create database <DBName>" (131): an empty database; the statement fails
\* and changes nothing when the database exists.
createDatabase(d) ==
    IF d.exists THEN d ELSE [d EXCEPT !.exists = TRUE, !.tables = 0]

\* "use <DBName>" (132): selects the database when it exists.
useDatabase(d) == IF d.exists THEN [d EXCEPT !.current = TRUE] ELSE d

\* Mutant: cleanup without the drop statement.
resetNoDrop(d) == useDatabase(createDatabase(d))

\* cleanup (129-133): drop database if exists, create database, use; the
\* three statements are taken to succeed (their results are discarded).
reset(d) == useDatabase(createDatabase(dropDatabase(d)))

\* Mutant: kickup starts the worker without calling Init.
kickupNextNoInit(pc) ==
    CASE pc = "new" -> "kickup"
      [] pc = "kickup" -> "createTable"
      [] pc = "createTable" -> "reload"
      [] pc = "reload" -> "createIndex"
      [] pc = "createIndex" -> "insert"
      [] pc = "insert" -> "spawn"
      [] pc = "init" -> "spawn"
      [] pc = "spawn" -> "started"

\* The order of the statements of Start (56-57), kickup (136-140) and
\* prepare (95, 103, 111, 120): the statement that follows statement pc.
kickupNext(pc) ==
    CASE pc = "new" -> "kickup"
      [] pc = "kickup" -> "createTable"
      [] pc = "createTable" -> "reload"
      [] pc = "reload" -> "createIndex"
      [] pc = "createIndex" -> "insert"
      [] pc = "insert" -> "init"
      [] pc = "init" -> "spawn"
      [] pc = "spawn" -> "started"

\* The generators and Executor.Exec are defined outside pivot.go.  Section 6
\* of the specification has a generator hand back a Statement, best-effort;
\* the statement of a generator that failed does not execute.
ExecResults(generated) == IF generated THEN BOOLEAN ELSE {FALSE}

\* Mutant: a failed bootstrap statement ends the process.
onExecErrorAbort(kind) == "abort"

\* prepare (98-100, 104-106, 115-117, 123-125): err != nil writes a log line
\* and the loop goes on.
onExecError(kind) == "log"

\* The messages of those log lines (99, 105, 116, 124).
logMessage(kind) ==
    CASE kind = "createTable" -> "create table failed"
      [] kind = "reload" -> "reload data failed!"
      [] kind = "createIndex" -> "create index failed"
      [] kind = "insert" -> "insert data failed"

\* Mutant: every call of progress refreshes the snapshot first.
progressSnapshotsRefreshed(s) == Min(s + 1, MaxIter + 1)

\* progress (156-182) has no call of Init: the number of snapshots taken
\* stays what it was.
progressSnapshots(s) == s

\* Mutant: the inner loop looks at the context after every iteration.
innerLoopNextRecheck(done) == "select"

\* The inner loop (147-149) has no exit and no look at ctx: after a call of
\* progress that returned comes the next call.
innerLoopNext(done) == "choose"

\* What the worker has written of the iteration's SQL text, pivot row and
\* result set when it panics.  panic(err) at 160, 166, 171 and 199 carries
\* the error only; verify prints the pivot row (242-245) before its scan and
\* the result set (257-263) after it; the panic at 176 carries all three.
diagnostics(failure) ==
    CASE failure = "pivot" -> {}
      [] failure = "synthesis" -> {}
      [] failure = "execution" -> {}
      [] failure = "verify" -> {"pivot"}
      [] failure = "mismatch" -> {"pivot", "rows", "sql"}

\* Mutant: Close does not wait for the WaitGroup.
waitReturnsAtOnce(n) == TRUE

\* wg.Wait() (61) returns when the counter is zero.
waitReturns(n) == n = 0

\* Mutant: kickup forgets wg.Add(1).
wgAddNothing(n) == n

\* wg.Add(1) (136).
wgAdd(n) == n + 1

\* Mutant: a failed verification is only reported; the loop goes on.
onVerifiedGoOn(correct) == "success"

\* 174-180: a verification result of false panics, true prints success.
onVerified(correct) == IF correct THEN "success" ELSE "panic"

\* The ways ChoosePivotedRow (185-212) can end on a snapshot of n tables:
\* an empty snapshot panics on p.Tables[:1], a failed query panics (199).
choosePivotOutcomes(n) == IF n = 0 THEN {"panic"} ELSE {"ok", "panic"}

\* The database before Start: absent, or left over from an earlier run with
\* up to MaxLeftover tables.
PriorDbs ==
    {[exists |-> FALSE, current |-> FALSE, tables |-> 0]}
    \cup [exists : {TRUE}, current : BOOLEAN, tables : 0..MaxLeftover]

LifeInit ==
    /\ ownerPc = "new"
    /\ workerPc = "none"
    /\ ctxDone = FALSE
    /\ wg = 0
    /\ alive = TRUE
    /\ connOpen = TRUE
    /\ db \in PriorDbs
    /\ execTables = 0
    /\ loopI = 0
    /\ nTables = 0
    /\ spawned = 0
    /\ iterations = 0
    /\ emitted = FALSE
    /\ lastFailure = "none"
    /\ closeLog = <<>>
    /\ created = 0
    /\ reloads = 0
    /\ indexed = 0
    /\ inserted = 0
    /\ fault = "none"
    /\ logLine = "none"
    /\ snapshots = 0
    /\ lateStart = FALSE
    /\ diag = {}

LifeIdle ==
    /\ ownerPc = Idle
    /\ workerPc = Idle
    /\ ctxDone = FALSE
    /\ wg = 0
    /\ alive = FALSE
    /\ connOpen = FALSE
    /\ db = [exists |-> FALSE, current |-> FALSE, tables |-> 0]
    /\ execTables = 0
    /\ loopI = 0
    /\ nTables = 0
    /\ spawned = 0
    /\ iterations = 0
    /\ emitted = FALSE
    /\ lastFailure = "none"
    /\ closeLog = <<>>
    /\ created = 0
    /\ reloads = 0
    /\ indexed = 0
    /\ inserted = 0
    /\ fault = "none"
    /\ logLine = "none"
    /\ snapshots = 0
    /\ lateStart = FALSE
    /\ diag = {}

\* The caller of Start cancels the context.
Cancel ==
    /\ alive
    /\ ~ctxDone
    /\ ctxDone' = TRUE
    /\ UNCHANGED <<ownerPc, workerPc, wg, alive, connOpen, db, execTables, loopI,
                   nTables, spawned, iterations, emitted, lastFailure, closeLog>>
    /\ UNCHANGED <<bootVars, snapshots, lateStart, diag>>

\* Start (55-56): p.cleanup(ctx).
Start ==
    /\ alive
    /\ ownerPc = "new"
    /\ db' = reset(db)
    /\ ownerPc' = kickupNext(ownerPc)
    /\ UNCHANGED <<workerPc, ctxDone, wg, alive, connOpen, execTables, loopI,
                   nTables, spawned, iterations, emitted, lastFailure, closeLog>>
    /\ UNCHANGED <<bootVars, snapshots, lateStart, diag>>

\* kickup (136): p.wg.Add(1).
WgAdd ==
    /\ alive
    /\ ownerPc = "kickup"
    /\ wg' = wgAdd(wg)
    /\ loopI' = 0
    /\ ownerPc' = kickupNext(ownerPc)
    /\ UNCHANGED <<workerPc, ctxDone, alive, connOpen, db, execTables,
                   nTables, spawned, iterations, emitted, lastFailure, closeLog>>
    /\ UNCHANGED <<bootVars, snapshots, lateStart, diag>>

\* The error check after a bootstrap statement (98-100, 104-106, 115-117,
\* 123-125).
Checked(ok, kind) ==
    IF ok
    THEN /\ logLine' = "none"
         /\ UNCHANGED alive
    ELSE IF onExecError(kind) = "abort"
         THEN /\ logLine' = "none"
              /\ alive' = FALSE
         ELSE /\ logLine' = logMessage(kind)
              /\ UNCHANGED alive

\* prepare (95-101): the loop test draws a fresh bound r.Intn(10)+1 on every
\* pass; a pass executes one generated create-table statement, whose failure
\* is logged and skipped.  The generator's error is discarded (96).
CreateTable ==
    /\ alive
    /\ ownerPc = "createTable"
    /\ \E bound \in createTableBounds :
         IF loopI < bound
         THEN /\ \E generated \in BOOLEAN : \E ok \in ExecResults(generated) :
                   /\ db' = IF ok THEN [db EXCEPT !.tables = @ + 1] ELSE db
                   /\ fault' = IF ok THEN "none"
                               ELSE IF generated THEN "exec" ELSE "generator"
                   /\ Checked(ok, "createTable")
              /\ created' = created + 1
              /\ loopI' = loopI + 1
              /\ UNCHANGED ownerPc
         ELSE /\ ownerPc' = kickupNext(ownerPc)
              /\ UNCHANGED <<db, loopI, created, fault, logLine, alive>>
    /\ UNCHANGED <<workerPc, ctxDone, wg, connOpen, execTables,
                   nTables, spawned, iterations, emitted, lastFailure, closeLog>>
    /\ UNCHANGED <<reloads, indexed, inserted, snapshots, lateStart, diag>>

\* prepare (103-110): ReloadSchema; a failure is logged and the executor
\* keeps the table list it had.
ReloadSchema ==
    /\ alive
    /\ ownerPc = "reload"
    /\ \E ok \in BOOLEAN :
         /\ execTables' = IF ok THEN db.tables ELSE execTables
         /\ fault' = IF ok THEN "none" ELSE "reload"
         /\ Checked(ok, "reload")
    /\ reloads' = reloads + 1
    /\ loopI' = 0
    /\ ownerPc' = kickupNext(ownerPc)
    /\ UNCHANGED <<workerPc, ctxDone, wg, connOpen, db,
                   nTables, spawned, iterations, emitted, lastFailure, closeLog>>
    /\ UNCHANGED <<created, indexed, inserted, snapshots, lateStart, diag>>

\* prepare (111-118): the loop test draws a fresh bound r.Intn(10) on every
\* pass; a pass executes one generated create-index statement.
CreateIndex ==
    /\ alive
    /\ ownerPc = "createIndex"
    /\ \E bound \in createIndexBounds :
         IF loopI < bound
         THEN /\ \E generated \in BOOLEAN : \E ok \in ExecResults(generated) :
                   /\ fault' = IF ok THEN "none"
                               ELSE IF generated THEN "exec" ELSE "generator"
                   /\ Checked(ok, "createIndex")
              /\ indexed' = indexed + 1
              /\ loopI' = loopI + 1
              /\ UNCHANGED ownerPc
         ELSE /\ loopI' = 0
              /\ ownerPc' = kickupNext(ownerPc)
              /\ UNCHANGED <<indexed, fault, logLine, alive>>
    /\ UNCHANGED <<workerPc, ctxDone, wg, connOpen, db, execTables,
                   nTables, spawned, iterations, emitted, lastFailure, closeLog>>
    /\ UNCHANGED <<created, reloads, inserted, snapshots, lateStart, diag>>

\* prepare (120-126): one generated insert per table of the executor's
\* table list.
InsertData ==
    /\ alive
    /\ ownerPc = "insert"
    /\ IF loopI < execTables
       THEN /\ \E generated \in BOOLEAN : \E ok \in ExecResults(generated) :
                 /\ fault' = IF ok THEN "none"
                             ELSE IF generated THEN "exec" ELSE "generator"
                 /\ Checked(ok, "insert")
            /\ inserted' = inserted + 1
            /\ loopI' = loopI + 1
            /\ UNCHANGED ownerPc
       ELSE /\ loopI' = 0
            /\ ownerPc' = kickupNext(ownerPc)
            /\ UNCHANGED <<inserted, fault, logLine, alive>>
    /\ UNCHANGED <<workerPc, ctxDone, wg, connOpen, db, execTables,
                   nTables, spawned, iterations, emitted, lastFailure, closeLog>>
    /\ UNCHANGED <<created, reloads, indexed, snapshots, lateStart, diag>>

\* Init (67-91): the table list is rebuilt from the database; a fetch error
\* panics on the caller's thread, which ends the process.
InitSnapshot ==
    /\ alive
    /\ ownerPc = "init"
    /\ \/ /\ nTables' = db.tables
          /\ snapshots' = snapshots + 1
          /\ ownerPc' = kickupNext(ownerPc)
          /\ UNCHANGED alive
       \/ /\ alive' = FALSE
          /\ UNCHANGED <<nTables, snapshots, ownerPc>>
    /\ UNCHANGED <<workerPc, ctxDone, wg, connOpen, db, execTables, loopI,
                   spawned, iterations, emitted, lastFailure, closeLog>>
    /\ UNCHANGED <<bootVars, lateStart, diag>>

\* kickup (140): the go statement; kickup and Start return.
Spawn ==
    /\ alive
    /\ ownerPc = "spawn"
    /\ workerPc' = "select"
    /\ spawned' = spawned + 1
    /\ ownerPc' = kickupNext(ownerPc)
    /\ UNCHANGED <<ctxDone, wg, alive, connOpen, db, execTables, loopI,
                   nTables, iterations, emitted, lastFailure, closeLog>>
    /\ UNCHANGED <<bootVars, snapshots, lateStart, diag>>

\* The owner calls Close (60) and reaches p.wg.Wait().
CallClose ==
    /\ alive
    /\ ownerPc = "started"
    /\ ownerPc' = "wait"
    /\ UNCHANGED <<workerPc, ctxDone, wg, alive, connOpen, db, execTables, loopI,
                   nTables, spawned, iterations, emitted, lastFailure, closeLog>>
    /\ UNCHANGED <<bootVars, snapshots, lateStart, diag>>

\* Close (61): p.wg.Wait() returns.
CloseWait ==
    /\ alive
    /\ ownerPc = "wait"
    /\ waitReturns(wg)
    /\ closeLog' = Append(closeLog, "wait")
    /\ ownerPc' = "closeCleanup"
    /\ UNCHANGED <<workerPc, ctxDone, wg, alive, connOpen, db, execTables, loopI,
                   nTables, spawned, iterations, emitted, lastFailure>>
    /\ UNCHANGED <<bootVars, snapshots, lateStart, diag>>

\* Close (62): p.cleanup(context.Background()).
CloseCleanup ==
    /\ alive
    /\ ownerPc = "closeCleanup"
    /\ db' = reset(db)
    /\ closeLog' = Append(closeLog, "reset")
    /\ ownerPc' = "release"
    /\ UNCHANGED <<workerPc, ctxDone, wg, alive, connOpen, execTables, loopI,
                   nTables, spawned, iterations, emitted, lastFailure>>
    /\ UNCHANGED <<bootVars, snapshots, lateStart, diag>>

\* Close (63): p.Executor.Close().
CloseRelease ==
    /\ alive
    /\ ownerPc = "release"
    /\ connOpen' = FALSE
    /\ closeLog' = Append(closeLog, "release")
    /\ ownerPc' = "closed"
    /\ UNCHANGED <<workerPc, ctxDone, wg, alive, db, execTables, loopI,
                   nTables, spawned, iterations, emitted, lastFailure>>
    /\ UNCHANGED <<bootVars, snapshots, lateStart, diag>>

\* A panic in the worker (160, 166, 171, 176, 199): what was written before
\* it stays written, the deferred p.wg.Done() (141) runs, then the runtime
\* ends the process.
Panicked(failure) ==
    /\ workerPc' = "panicking"
    /\ lastFailure' = failure
    /\ diag' = diagnostics(failure)
    /\ wg' = wg - 1

\* The worker's select (143-147): ctx.Done() is closed and the goroutine
\* returns through the deferred p.wg.Done(), or the default branch enters
\* the inner loop.
WorkerSelect ==
    /\ alive
    /\ workerPc = "select"
    /\ IF ctxDone
       THEN /\ workerPc' = "retired"
            /\ wg' = wg - 1
       ELSE /\ workerPc' = "choose"
            /\ UNCHANGED wg
    /\ UNCHANGED <<ownerPc, ctxDone, alive, connOpen, db, execTables, loopI,
                   nTables, spawned, iterations, emitted, lastFailure, closeLog>>
    /\ UNCHANGED <<bootVars, snapshots, lateStart, diag>>

\* progress (156-161): a new call of progress begins with ChoosePivotedRow,
\* on the snapshot as it is.
WorkerChoose ==
    /\ alive
    /\ workerPc = "choose"
    /\ iterations' = Min(iterations + 1, MaxIter)
    /\ emitted' = FALSE
    /\ snapshots' = progressSnapshots(snapshots)
    /\ lateStart' = (lateStart \/ (ctxDone /\ iterations >= 1))
    /\ \E outcome \in choosePivotOutcomes(nTables) :
         IF outcome = "panic"
         THEN Panicked("pivot")
         ELSE /\ workerPc' = "gen"
              /\ UNCHANGED <<wg, lastFailure, diag>>
    /\ UNCHANGED <<ownerPc, ctxDone, alive, connOpen, db, execTables, loopI,
                   nTables, spawned, closeLog>>
    /\ UNCHANGED bootVars

\* progress (164-167): GenSelectStmt.
WorkerGen ==
    /\ alive
    /\ workerPc = "gen"
    /\ \/ Panicked("synthesis")
       \/ /\ workerPc' = "exec"
          /\ UNCHANGED <<wg, lastFailure, diag>>
    /\ UNCHANGED <<iterations, emitted>>
    /\ UNCHANGED <<ownerPc, ctxDone, alive, connOpen, db, execTables, loopI,
                   nTables, spawned, closeLog>>
    /\ UNCHANGED <<bootVars, snapshots, lateStart>>

\* progress (169-172): execSelect.
WorkerExec ==
    /\ alive
    /\ workerPc = "exec"
    /\ \/ Panicked("execution")
       \/ /\ workerPc' = "verify"
          /\ UNCHANGED <<wg, lastFailure, diag>>
    /\ UNCHANGED <<iterations, emitted>>
    /\ UNCHANGED <<ownerPc, ctxDone, alive, connOpen, db, execTables, loopI,
                   nTables, spawned, closeLog>>
    /\ UNCHANGED <<bootVars, snapshots, lateStart>>

\* progress (174-181): verify, then the panic or the success message; after
\* the message the inner loop (147-149) calls progress again.  verify itself
\* panics when a cell it needs is missing (271-272).
WorkerVerify ==
    /\ alive
    /\ workerPc = "verify"
    /\ \/ /\ Panicked("verify")
          /\ UNCHANGED emitted
       \/ \E correct \in BOOLEAN :
            /\ lastFailure' = IF correct THEN lastFailure ELSE "mismatch"
            /\ IF onVerified(correct) = "panic"
               THEN /\ workerPc' = "panicking"
                    /\ diag' = diagnostics("mismatch")
                    /\ wg' = wg - 1
                    /\ UNCHANGED emitted
               ELSE /\ workerPc' = innerLoopNext(ctxDone)
                    /\ emitted' = TRUE
                    /\ UNCHANGED <<wg, diag>>
    /\ UNCHANGED iterations
    /\ UNCHANGED <<ownerPc, ctxDone, alive, connOpen, db, execTables, loopI,
                   nTables, spawned, closeLog>>
    /\ UNCHANGED <<bootVars, snapshots, lateStart>>

\* The runtime ends the process after the panic's deferred calls.
Crash ==
    /\ alive
    /\ workerPc = "panicking"
    /\ alive' = FALSE
    /\ UNCHANGED <<ownerPc, workerPc, ctxDone, wg, connOpen, db, execTables, loopI,
                   nTables, spawned, iterations, emitted, lastFailure, closeLog>>
    /\ UNCHANGED <<bootVars, snapshots, lateStart, diag>>

\* cleanup (129-133) run once more on the database the run before left.
Cleanup ==
    /\ resetRuns \in 0..(MaxResets - 1)
    /\ resetDb' = reset(resetDb)
    /\ resetOnce' = IF resetRuns = 0 THEN reset(resetDb) ELSE resetOnce
    /\ resetRuns' = resetRuns + 1
    /\ UNCHANGED resetPrior

ResetInit ==
    /\ resetPrior \in PriorDbs
    /\ resetDb = resetPrior
    /\ resetOnce = NotRun
    /\ resetRuns = 0

ResetIdle ==
    /\ resetPrior = [exists |-> FALSE, current |-> FALSE, tables |-> 0]
    /\ resetDb = [exists |-> FALSE, current |-> FALSE, tables |-> 0]
    /\ resetOnce = Idle
    /\ resetRuns = 0

(***************************************************************************)
(* Specifications.                                                         *)
(***************************************************************************)
InitCompare == CompareInit /\ VerifyIdle /\ PivotIdle /\ LifeIdle /\ ResetIdle
NextCompare == Compare /\ UNCHANGED <<verVars, pivVars, lifeVars, rstVars>>
SpecCompare == InitCompare /\ [][NextCompare]_vars

\* compareQueryItem and verify side by side: a behaviour is one call of one
\* of the two.
InitOracle ==
    \/ CompareInit /\ VerifyIdle /\ PivotIdle /\ LifeIdle /\ ResetIdle
    \/ VerifyInit /\ CompareIdle /\ PivotIdle /\ LifeIdle /\ ResetIdle
NextOracle ==
    \/ Compare /\ UNCHANGED <<verVars, pivVars, lifeVars, rstVars>>
    \/ Verify /\ UNCHANGED <<cmpVars, pivVars, lifeVars, rstVars>>
SpecOracle == InitOracle /\ [][NextOracle]_vars

InitPivot == PivotInit /\ CompareIdle /\ VerifyIdle /\ LifeIdle /\ ResetIdle
NextPivot ==
    \/ ChooseCount /\ UNCHANGED <<cmpVars, verVars, lifeVars, rstVars>>
    \/ FetchPivot /\ UNCHANGED <<cmpVars, verVars, lifeVars, rstVars>>
    \/ ReturnPivot /\ UNCHANGED <<cmpVars, verVars, lifeVars, rstVars>>
SpecPivot == InitPivot /\ [][NextPivot]_vars

\* cleanup run up to MaxResets times in a row on a database in any prior
\* state.
InitReset == ResetInit /\ CompareIdle /\ VerifyIdle /\ PivotIdle /\ LifeIdle
NextReset == Cleanup /\ UNCHANGED <<cmpVars, verVars, pivVars, lifeVars>>
SpecReset == InitReset /\ [][NextReset]_vars

\* The life cycle.  OwnerNext is the caller's thread inside Start and Close,
\* WorkerNext the goroutine started at 140.
OwnerNext ==
    /\ \/ Start
       \/ WgAdd
       \/ CreateTable
       \/ ReloadSchema
       \/ CreateIndex
       \/ InsertData
       \/ InitSnapshot
       \/ Spawn
       \/ CloseWait
       \/ CloseCleanup
       \/ CloseRelease
    /\ UNCHANGED <<cmpVars, verVars, pivVars, rstVars>>
WorkerNext ==
    /\ \/ WorkerSelect
       \/ WorkerChoose
       \/ WorkerGen
       \/ WorkerExec
       \/ WorkerVerify
       \/ Crash
    /\ UNCHANGED <<cmpVars, verVars, pivVars, rstVars>>
Init == LifeInit /\ CompareIdle /\ VerifyIdle /\ PivotIdle /\ ResetIdle
Next ==
    \/ Cancel /\ UNCHANGED <<cmpVars, verVars, pivVars, rstVars>>
    \/ Start /\ UNCHANGED <<cmpVars, verVars, pivVars, rstVars>>
    \/ WgAdd /\ UNCHANGED <<cmpVars, verVars, pivVars, rstVars>>
    \/ CreateTable /\ UNCHANGED <<cmpVars, verVars, pivVars, rstVars>>
    \/ ReloadSchema /\ UNCHANGED <<cmpVars, verVars, pivVars, rstVars>>
    \/ CreateIndex /\ UNCHANGED <<cmpVars, verVars, pivVars, rstVars>>
    \/ InsertData /\ UNCHANGED <<cmpVars, verVars, pivVars, rstVars>>
    \/ InitSnapshot /\ UNCHANGED <<cmpVars, verVars, pivVars, rstVars>>
    \/ Spawn /\ UNCHANGED <<cmpVars, verVars, pivVars, rstVars>>
    \/ CallClose /\ UNCHANGED <<cmpVars, verVars, pivVars, rstVars>>
    \/ CloseWait /\ UNCHANGED <<cmpVars, verVars, pivVars, rstVars>>
    \/ CloseCleanup /\ UNCHANGED <<cmpVars, verVars, pivVars, rstVars>>
    \/ CloseRelease /\ UNCHANGED <<cmpVars, verVars, pivVars, rstVars>>
    \/ WorkerSelect /\ UNCHANGED <<cmpVars, verVars, pivVars, rstVars>>
    \/ WorkerChoose /\ UNCHANGED <<cmpVars, verVars, pivVars, rstVars>>
    \/ WorkerGen /\ UNCHANGED <<cmpVars, verVars, pivVars, rstVars>>
    \/ WorkerExec /\ UNCHANGED <<cmpVars, verVars, pivVars, rstVars>>
    \/ WorkerVerify /\ UNCHANGED <<cmpVars, verVars, pivVars, rstVars>>
    \/ Crash /\ UNCHANGED <<cmpVars, verVars, pivVars, rstVars>>
Spec == Init /\ [][Next]_vars

\* The Go scheduler runs every runnable goroutine: a thread that can take a
\* step eventually takes one.  Calling Close and cancelling the context are
\* the caller's choice and carry no fairness.
SpecFair == Spec /\ WF_vars(OwnerNext) /\ WF_vars(WorkerNext)

(***************************************************************************)
(* Properties.                                                             *)
(***************************************************************************)
\* The cell-equality rule as pivot.go 279-288 and the NULL-equality property
\* agree on it: same type name, same null flag, and both null or the same
\* string.
CellsEqual(a, b) ==
    /\ a.ValType = b.ValType
    /\ a.Null = b.Null
    /\ (a.Null /\ b.Null) \/ a.ValString = b.ValString

\* Row `row` carries, at every index of the output columns, a cell equal to
\* the pivot row's cell recorded under that column.
RowMatchesPivot(row) ==
    \A i \in 1..Len(columns) :
        /\ i <= Len(row)
        /\ columns[i] \in DOMAIN originRow
        /\ CellsEqual(row[i], originRow[columns[i]])

\* Some cell verify needs is missing: a column without a pivot entry, or a
\* row shorter than the column list.
SomeCellMissing ==
    \/ \E i \in 1..Len(columns) : columns[i] \notin DOMAIN originRow
    \/ \E r \in 1..Len(resultSets) : Len(resultSets[r]) < Len(columns)

C2_EqualIffTypeAndNullOrString ==
    cmpOut \in {"true", "false"} =>
        (cmpOut = "true" <=>
            /\ cmpLeft.ValType = cmpRight.ValType
            /\ (cmpLeft.Null /\ cmpRight.Null) \/ cmpLeft.ValString = cmpRight.ValString)

\* C2 amended: equal iff the types match, the null flags match, and (both
\* are null or the strings match).
C2_EqualIffTypeNullFlagAndString ==
    cmpOut \in {"true", "false"} =>
        (cmpOut = "true" <=>
            /\ cmpLeft.ValType = cmpRight.ValType
            /\ cmpLeft.Null = cmpRight.Null
            /\ (cmpLeft.Null /\ cmpRight.Null) \/ cmpLeft.ValString = cmpRight.ValString)

\* C2 witness: two non-null cells of one type with the same string compared
\* equal.
C2_SameStringEqual ==
    /\ cmpOut = "true"
    /\ ~cmpLeft.Null
    /\ ~cmpRight.Null
    /\ cmpLeft.ValString = "1"

\* C3: two null cells of one type compare equal whatever their strings, and
\* a null cell and a non-null cell of one type never compare equal.
C3_NullEquality ==
    cmpOut \in {"true", "false"} =>
        /\ (cmpLeft.ValType = cmpRight.ValType /\ cmpLeft.Null /\ cmpRight.Null)
              => cmpOut = "true"
        /\ (cmpLeft.ValType = cmpRight.ValType /\ cmpLeft.Null # cmpRight.Null)
              => cmpOut = "false"

\* C3 witness: a null and a non-null cell of one type, both with the empty
\* string, compared unequal.
C3_NullVersusEmptyString ==
    /\ cmpOut = "false"
    /\ cmpLeft.ValType = cmpRight.ValType
    /\ cmpLeft.Null
    /\ ~cmpRight.Null
    /\ cmpLeft.ValString = ""
    /\ cmpRight.ValString = ""

\* Row `row` has, at every output column, a cell of the type of the pivot
\* row's cell for that column.
RowTypesAgree(row) ==
    \A i \in 1..Len(columns) :
        /\ i <= Len(row)
        /\ columns[i] \in DOMAIN originRow
        /\ row[i].ValType = originRow[columns[i]].ValType

\* C4: two cells of different types never compare equal, and verify never
\* returns true when every result row differs from the pivot row in the type
\* of some output column.
C4_TypeMismatchRejected ==
    /\ (cmpOut \in {"true", "false"} /\ cmpLeft.ValType # cmpRight.ValType)
          => cmpOut = "false"
    /\ verifyOut = "true" =>
          \E r \in 1..Len(resultSets) : RowTypesAgree(resultSets[r])

\* C4 witness: verify returned false on a row whose only difference from the
\* pivot row is the type of its one cell (integer "1" against string "1").
C4_SameStringOtherTypeRejected ==
    /\ verifyOut = "false"
    /\ Len(columns) = 1
    /\ Len(resultSets) = 1
    /\ columns[1] \in DOMAIN originRow
    /\ Len(resultSets[1]) = 1
    /\ resultSets[1][1].ValType # originRow[columns[1]].ValType
    /\ resultSets[1][1].ValString = "1"
    /\ originRow[columns[1]].ValString = "1"
    /\ ~resultSets[1][1].Null
    /\ ~originRow[columns[1]].Null

\* The candidates among the first n that answered with a row, in order.
RECURSIVE AnsweredWithRow(_)
AnsweredWithRow(n) ==
    IF n = 0
    THEN <<>>
    ELSE IF responses[n] # QueryErr /\ Len(responses[n]) > 0
         THEN Append(AnsweredWithRow(n - 1), usedTables[n])
         ELSE AnsweredWithRow(n - 1)

\* C5: the really-used list holds exactly the candidates whose query
\* returned a row, in candidate order; the pivot mapping has no entry for any
\* other table; and pivot selection fails only on a query error or on an
\* empty snapshot, never on a table without rows.
C5_EmptyTablesExcluded ==
    /\ pivotPc \in {"loop", "done"} =>
          /\ reallyUsed = AnsweredWithRow(Len(responses))
          /\ \A k \in DOMAIN result :
                \E i \in 1..Len(reallyUsed) : reallyUsed[i] = k.Table
    /\ pivotPc = "done" => Len(responses) = count
    /\ pivotPc = "panic" =>
          \/ Len(Tables) = 0
          \/ (Len(responses) > 0 /\ responses[Len(responses)] = QueryErr)

\* C5 witness: selection returned after two candidates of which the first
\* had no row and the second had one.
C5_EmptyCandidateSkipped ==
    /\ pivotPc = "done"
    /\ count = 2
    /\ responses[1] = <<>>
    /\ Len(responses[2]) = 1
    /\ reallyUsed = <<usedTables[2]>>

\* C6 as stated: once count is drawn, 1 <= count <= N for a snapshot of N
\* tables, and taking the prefix does not fail.
C6_CountWithinTableList ==
    pivotPc \notin {Idle, "start"} =>
        /\ 1 <= count
        /\ count <= Len(Tables)
        /\ (Len(responses) = 0 => pivotPc # "panic")

\* C7: a step on which pivot selection, synthesis or execution fails, or
\* verification finds no matching row, puts the worker on the panic path
\* without a success message for that statement; from then on the worker
\* starts no iteration, repeats nothing and emits nothing, the only step left
\* to it being the end of the process, after which nothing runs at all.
C7_FailFast ==
    [][ /\ lastFailure' # "none" => (workerPc' = "panicking" /\ ~emitted')
        /\ lastFailure # "none" =>
              /\ lastFailure' = lastFailure
              /\ workerPc' = workerPc
              /\ iterations' = iterations
              /\ emitted' = emitted
        /\ alive ]_vars

\* C7 witness: the second iteration failed verification after the first one
\* succeeded, and the process has ended.
C7_AbortedOnMismatch ==
    /\ lastFailure = "mismatch"
    /\ iterations = 2
    /\ ~alive

\* C8: Close resets the database and releases the connection only once the
\* WaitGroup is back at zero and the worker has left its loop; the steps of
\* Close come in the order wait, reset, release; the reset leaves the working
\* database empty (nothing is populated again); and once the connection is
\* released the worker is at no statement that queries the database or reads
\* the table list.
C8_ShutdownOrdering ==
    /\ ownerPc \in {"closeCleanup", "release", "closed"} =>
          (workerPc \in {"retired", "panicking"} /\ wg = 0)
    /\ (ownerPc # Idle /\ ~connOpen) =>
          (ownerPc = "closed" /\ workerPc \in {"retired", "panicking"})
    /\ \E n \in 0..3 : closeLog = SubSeq(<<"wait", "reset", "release">>, 1, n)
    /\ ownerPc = "closed" => closeLog = <<"wait", "reset", "release">>
    /\ ownerPc \in {"release", "closed"} =>
          db = [exists |-> TRUE, current |-> TRUE, tables |-> 0]

\* C8 witness: Close has returned after the worker retired on cancellation.
C8_ClosedAfterRetirement ==
    /\ ownerPc = "closed"
    /\ workerPc = "retired"
    /\ ~connOpen
    /\ nTables > 0

\* C9 as stated, read in its weakest form (the end of the process on a
\* failed iteration counts as the end of the wait): once the context is
\* cancelled the worker retires, and a Close that waits returns.
C9_CancelEventually ==
    /\ (ctxDone /\ spawned = 1) ~> (workerPc = "retired" \/ ~alive)
    /\ (ctxDone /\ ownerPc = "wait") ~> (ownerPc = "closed" \/ ~alive)

\* The statements at which each thread uses the database connection or the
\* table list.
OwnerBeforeWorker ==
    ownerPc \in {"new", "kickup", "createTable", "reload", "createIndex",
                 "insert", "init", "spawn"}
OwnerShuttingDown == ownerPc \in {"closeCleanup", "release", "closed"}
WorkerIterating == workerPc \in {"select", "choose", "gen", "exec", "verify"}

\* C10: at most one worker is ever started; while the caller's thread is in
\* cleanup, prepare or Init no worker exists; while a worker can still run an
\* iteration the caller's thread is outside Start and at most waiting in
\* Close; and the caller's shutdown work runs only after the worker has left
\* its loop.
C10_SingleWorkerNoConcurrentAccess ==
    /\ spawned <= 1
    /\ workerPc \notin {"none", Idle} => spawned = 1
    /\ OwnerBeforeWorker => (workerPc = "none" /\ spawned = 0)
    /\ WorkerIterating => ownerPc \in {"started", "wait"}
    /\ OwnerShuttingDown => ~WorkerIterating

\* C10 witness: the worker is in the middle of an iteration while the owner
\* waits in Close.
C10_OwnerWaitsDuringIteration ==
    /\ workerPc = "exec"
    /\ ownerPc = "wait"
    /\ spawned = 1

\* The phase of the fuzzing loop a state is in: 1 Idle, 2 Bootstrapping
\* (reset, then populate), 3 Snapshotting (Init, up to the go statement),
\* 4 Iterating, 5 Draining (the worker has left its loop), 6 Closed.
PhaseRank ==
    IF ownerPc = "new" THEN 1
    ELSE IF ownerPc \in {"kickup", "createTable", "reload", "createIndex", "insert"}
         THEN 2
         ELSE IF ownerPc \in {"init", "spawn"}
              THEN 3
              ELSE IF ownerPc = "closed"
                   THEN 6
                   ELSE IF WorkerIterating THEN 4 ELSE 5

\* C11: every step keeps the phase or moves it to the next one of Idle,
\* Bootstrapping, Snapshotting, Iterating, Draining, Closed; the snapshot is
\* taken only after reset and populate have run to their end; and a worker
\* exists, and an iteration runs, only once the snapshot is built.
C11_LifecycleOrder ==
    [][ /\ PhaseRank' \in {PhaseRank, PhaseRank + 1}
        /\ snapshots' > snapshots =>
              (ownerPc = "init" /\ reloads = 1 /\ created >= 1
                 /\ inserted = execTables /\ db.exists /\ db.current)
        /\ (workerPc' # "none" \/ iterations' > 0) =>
              (snapshots' >= 1 /\ PhaseRank' >= 4) ]_vars

\* C11 witness: Close has returned after a run that went through populate,
\* the snapshot and at least one iteration.
C11_ClosedAfterEveryPhase ==
    /\ PhaseRank = 6
    /\ snapshots = 1
    /\ inserted >= 1
    /\ iterations >= 1

\* A step of prepare that executed a bootstrap statement (a generated
\* create-table, create-index or insert statement, or the schema reload).
StatementRan ==
    \/ created' # created
    \/ reloads' # reloads
    \/ indexed' # indexed
    \/ inserted' # inserted

C13_ResetIdempotent ==
    resetRuns \in 1..(MaxResets + 1) =>
        /\ resetDb = [exists |-> TRUE, current |-> TRUE, tables |-> 0]
        /\ resetDb = resetOnce

\* C13 witness: cleanup ran twice on a database that existed, was not the
\* current one and held tables.
C13_ResetTwiceOverLeftovers ==
    /\ resetRuns = 2
    /\ resetPrior.exists
    /\ ~resetPrior.current
    /\ resetPrior.tables >= 1
    /\ resetDb.tables = 0

\* C14 as stated: every iteration is preceded by its own refresh of the
\* snapshot, so there are at least as many snapshots as iterations begun.
C14_SnapshotPerIteration == iterations <= snapshots

\* C14 amended: Init runs at most once, in kickup before the worker is
\* started; a call of progress takes no snapshot and leaves the number of
\* tables of the snapshot as it was, so every iteration runs on the snapshot
\* taken before the first one.
C14_SnapshotBuiltOnce ==
    [][ /\ snapshots' \in {0, 1}
        /\ snapshots' # snapshots => (ownerPc = "init" /\ workerPc = "none")
        /\ (workerPc = "choose" /\ workerPc' # "choose") =>
              (snapshots = 1 /\ snapshots' = 1 /\ nTables' = nTables) ]_vars

\* C14 witness: the second iteration is under way on the one snapshot taken
\* in kickup.
C14_SecondIterationOnFirstSnapshot ==
    /\ iterations = 2
    /\ snapshots = 1
    /\ workerPc = "gen"
    /\ alive

\* C15: the worker looks at the context at its select only.  Leaving the
\* select it retires, with no iteration run, exactly when the context is
\* cancelled, and enters the inner loop otherwise; a retired worker has run
\* no iteration; past the select the worker never comes back to it; inside
\* the inner loop every step stays in the loop or is a panic, and a call of
\* progress that returned is followed by the next call whatever the context.
C15_CancellationGranularity ==
    [][ /\ (workerPc = "select" /\ workerPc' # "select") =>
              IF ctxDone
              THEN workerPc' = "retired" /\ iterations' = 0
              ELSE workerPc' = "choose"
        /\ workerPc' = "retired" => (iterations' = 0 /\ ~lateStart')
        /\ workerPc \notin {"none", "select", Idle} => workerPc' # "select"
        /\ workerPc \in {"choose", "gen", "exec", "verify"} =>
              workerPc' \in {"choose", "gen", "exec", "verify", "panicking"}
        /\ (workerPc = "choose" /\ workerPc' # "choose") =>
              (iterations' >= 1 /\ workerPc' \in {"gen", "panicking"})
        /\ (workerPc = "verify" /\ workerPc' # "verify") =>
              workerPc' \in {"choose", "panicking"} ]_vars

\* C15 witness: the context is cancelled, and the worker has begun a further
\* iteration after that and is about to begin the next.
C15_IteratesAfterCancel ==
    /\ ctxDone
    /\ lateStart
    /\ workerPc = "choose"
    /\ emitted
    /\ alive

\* C16: populate executes its statements in the order create-table, reload,
\* create-index, insert: while one kind is being executed none of the later
\* kinds has run and the earlier kinds have their final counts; and once a
\* kind is done, 1..10 create-table statements, exactly one reload, 0..9
\* create-index statements and one insert per table of the executor's table
\* list have been executed.
C16_BootstrapBoundsAndOrder ==
    /\ ownerPc \in {"new", "kickup"} =>
          (created = 0 /\ reloads = 0 /\ indexed = 0 /\ inserted = 0)
    /\ ownerPc = "createTable" =>
          (created = loopI /\ created \in 0..10
             /\ reloads = 0 /\ indexed = 0 /\ inserted = 0)
    /\ ownerPc = "reload" =>
          (created \in 1..10 /\ reloads = 0 /\ indexed = 0 /\ inserted = 0)
    /\ ownerPc = "createIndex" =>
          (created \in 1..10 /\ reloads = 1
             /\ indexed = loopI /\ indexed \in 0..9 /\ inserted = 0)
    /\ ownerPc = "insert" =>
          (created \in 1..10 /\ reloads = 1 /\ indexed \in 0..9
             /\ inserted = loopI /\ inserted \in 0..execTables)
    /\ ownerPc \in {"init", "spawn", "started", "wait", "closeCleanup",
                    "release", "closed"} =>
          (created \in 1..10 /\ reloads = 1 /\ indexed \in 0..9
             /\ inserted = execTables)

\* C16 witness: populate has ended after ten create-table statements, the
\* reload, nine create-index statements and an insert for each of ten
\* tables.
C16_LargestPopulate ==
    /\ ownerPc = "init"
    /\ created = 10
    /\ reloads = 1
    /\ indexed = 9
    /\ execTables = 10
    /\ inserted = 10

\* What exists of the diagnostic context when an iteration fails: nothing
\* when pivot selection fails, the pivot row when synthesis fails, the pivot
\* row and the SQL text when execution fails, and the result set as well
\* when verification fails.
ExistingContext(failure) ==
    CASE failure = "pivot" -> {}
      [] failure = "synthesis" -> {"pivot"}
      [] failure = "execution" -> {"pivot", "sql"}
      [] failure = "verify" -> {"pivot", "rows", "sql"}
      [] failure = "mismatch" -> {"pivot", "rows", "sql"}
      [] OTHER -> {}

\* C17 as stated: a worker on its way to the end of the process has written
\* every part of the diagnostic context that existed when it failed.
C17_DiagnosticsBeforeAbort ==
    workerPc = "panicking" => ExistingContext(lastFailure) \subseteq diag

\* The cells fetched so far, as <<candidate, column>> positions in the order
\* the candidate loop met them, and the key each one is filed under.
FetchedAt ==
    { pc \in (1..Len(responses)) \X (1..MaxCols) :
        /\ responses[pc[1]] # QueryErr
        /\ Len(responses[pc[1]]) > 0
        /\ pc[2] <= Len(responses[pc[1]][1]) }
CellAt(pc) == responses[pc[1]][1][pc[2]]
KeyAt(pc) == [Table |-> usedTables[pc[1]], Name |-> CellAt(pc).ValType]
Later(p1, p2) == p1[1] > p2[1] \/ (p1[1] = p2[1] /\ p1[2] > p2[2])

\* C18: while the candidate loop runs and when it has returned, the pivot
\* mapping has an entry for the key of every cell fetched so far and for no
\* other key, and the entry under a key is the last cell fetched with that
\* key (later candidate, or later column of the same row).
C18_LastCellPerKey ==
    pivotPc \in {"loop", "done"} =>
        /\ DOMAIN result = { KeyAt(pc) : pc \in FetchedAt }
        /\ \A pc \in FetchedAt :
              (\A other \in FetchedAt : KeyAt(other) = KeyAt(pc) => ~Later(other, pc))
                 => result[KeyAt(pc)] = CellAt(pc)

\* C18 witness: selection returned after a row whose two cells have one
\* value type and differ; the mapping holds the second.
C18_SecondCellOverwrote ==
    /\ pivotPc = "done"
    /\ Len(responses) >= 1
    /\ Len(responses[1]) = 1
    /\ Len(responses[1][1]) = 2
    /\ responses[1][1][1].ValType = responses[1][1][2].ValType
    /\ responses[1][1][1] # responses[1][1][2]
    /\ result[[Table |-> usedTables[1], Name |-> responses[1][1][2].ValType]]
          = responses[1][1][2]

\* C19: for a snapshot of N >= 1 tables the values count can take are
\* exactly 1..N, the count drawn is one of them, and it is 1 when N = 1.
C19_CountRange ==
    (pivotPc \in {"loop", "done", "panic"} /\ Len(Tables) >= 1) =>
        /\ countChoices(Len(Tables)) = 1..Len(Tables)
        /\ count \in 1..Len(Tables)
        /\ Len(Tables) = 1 => count = 1
        /\ Len(usedTables) = count

\* C19 witness: on a snapshot of three tables all three were chosen as
\* candidates and selection returned.
C19_AllTablesChosen ==
    /\ pivotPc = "done"
    /\ Len(Tables) = 3
    /\ count = 3
    /\ Len(usedTables) = 3

\* The value types occurring in a row, and the last cell of a type in it.
TypesOf(row) == { row[i].ValType : i \in 1..Len(row) }
LastOfType(row, ty) ==
    LET last == CHOOSE i \in 1..Len(row) :
                    /\ row[i].ValType = ty
                    /\ \A j \in 1..Len(row) : row[j].ValType = ty => j <= i
    IN  row[last]

\* C20: no step changes or removes an entry the pivot mapping already has
\* (the entries of an earlier table are out of reach of a later table's
\* cells); and after every step every key of the mapping names a really
\* used table, and for each candidate that returned a row the mapping has
\* one entry per value type occurring in the row, namely the last cell of
\* that type, and no other entry for that table.
C20_NoCrossTableOverwrite ==
    [][ /\ \A k \in DOMAIN result :
              k \in DOMAIN result' /\ result'[k] = result[k]
        /\ pivotPc' \in {"loop", "done"} =>
              /\ \A k \in DOMAIN result' :
                    \E u \in 1..Len(reallyUsed') : reallyUsed'[u] = k.Table
              /\ \A n \in 1..Len(responses') :
                    LET rows == responses'[n]
                        types == IF Len(rows) > 0 THEN TypesOf(rows[1]) ELSE {}
                    IN  /\ { k.Name : k \in { x \in DOMAIN result' :
                                                 x.Table = usedTables'[n] } } = types
                        /\ \A ty \in types :
                              result'[[Table |-> usedTables'[n], Name |-> ty]]
                                 = LastOfType(rows[1], ty) ]_vars

\* C20 witness: two candidates each returned a one-cell row of the integer
\* type with different cells, and the mapping holds both after the return.
C20_SameTypeTwoTables ==
    /\ pivotPc = "done"
    /\ Len(responses) >= 2
    /\ Len(responses[1]) = 1
    /\ Len(responses[2]) = 1
    /\ Len(responses[1][1]) = 1
    /\ Len(responses[2][1]) = 1
    /\ responses[1][1][1].ValType = "int"
    /\ responses[2][1][1].ValType = "int"
    /\ responses[1][1][1] # responses[2][1][1]
    /\ result[[Table |-> usedTables[1], Name |-> "int"]] = responses[1][1][1]
    /\ result[[Table |-> usedTables[2], Name |-> "int"]] = responses[2][1][1]

====
